---- MODULE Spec2Model ----
(***************************************************************************)
(* A model of package driverdistro (pkg/driver/distro/distro.go):          *)
(*   - DiscoverDistro / getOSReleaseDistro: resolution of the host's       *)
(*     distro strategy from <hostRoot>/etc/os-release, the minikube marker *)
(*     override and the checker fallback scan;                             *)
(*   - Download / Build: the canonical cache path and the cache            *)
(*     short-circuit, the ordered repository loop, the copy into the       *)
(*     cache.                                                              *)
(* Strings are TLA+ strings; the text read from os-release is a sequence   *)
(* of one-character strings so that strings.ToLower is computed.           *)
(***************************************************************************)
EXTENDS Naturals, Sequences, FiniteSets, TLC

VARIABLES
    \* ---- distro resolution ----
    distros,     \* the process-wide registry: key -> strategy object state
    osRelease,   \* what ini.Load(hostRoot + "/etc/os-release") finds
    markers,     \* registry keys whose check(hostRoot) answers true
    dcalls,      \* number of DiscoverDistro invocations made so far
    dret,        \* observation of the last DiscoverDistro invocation
    dprev,       \* observation of the DiscoverDistro invocation before it
    \* ---- download / build ----
    fs,          \* the cache directory: canonical path -> file content
    pc,          \* position of the running Build/Download invocation
    cur,         \* its arguments
    idx,         \* Download: index of the next repository to try
    reqs,        \* HTTP GETs issued by the running invocation, in order
    attempts,    \* Download: outcome of each repository attempt, in order
    steps,       \* Build: the steps run by the running invocation, in order
    entry,       \* content of the cache slot when the invocation started
    ret,         \* (path, err) returned by the invocation
    prev,        \* summary of the invocation completed before this one
    ncalls,      \* number of Build/Download invocations started
    \* ---- the pure functions, applied to drawn inputs ----
    fnIn,        \* the arguments
    fnOut,       \* the result
    \* ---- kernel source provisioning ----
    host,        \* the kernel config files present on the host
    cwdFiles,    \* the process working directory: relative name -> content
    tmpDirs,     \* the directories created under /tmp/kernel
    kp           \* per invocation: position, arguments, observations

dvars == <<distros, osRelease, markers, dcalls, dret, dprev>>
cvars == <<fs, pc, cur, idx, reqs, attempts, steps, entry, ret, prev, ncalls>>
pvars == <<fnIn, fnOut>>
kvars == <<host, cwdFiles, tmpDirs, kp>>
vars  == <<distros, osRelease, markers, dcalls, dret, dprev,
           fs, pc, cur, idx, reqs, attempts, steps, entry, ret, prev, ncalls,
           fnIn, fnOut, host, cwdFiles, tmpDirs, kp>>

-----------------------------------------------------------------------------
(* Bounds of the model.                                                    *)

\* DiscoverDistro invocations per behaviour
MaxDiscover == 2

-----------------------------------------------------------------------------
(* Strings.                                                                *)

UpperChars == <<"A","B","C","D","E","F","G","H","I","J","K","L","M",
                "N","O","P","Q","R","S","T","U","V","W","X","Y","Z">>
LowerChars == <<"a","b","c","d","e","f","g","h","i","j","k","l","m",
                "n","o","p","q","r","s","t","u","v","w","x","y","z">>

\* strings.ToLower on one character
LowerChar(c) ==
    IF \E i \in DOMAIN UpperChars : UpperChars[i] = c
    THEN LowerChars[CHOOSE i \in DOMAIN UpperChars : UpperChars[i] = c]
    ELSE c

RECURSIVE Join(_)
\* the string made of a sequence of characters
Join(cs) == IF cs = <<>> THEN "" ELSE Head(cs) \o Join(Tail(cs))

\* strings.ToLower(idKey.String())
ToLower(cs) == Join([i \in DOMAIN cs |-> LowerChar(cs[i])])

-----------------------------------------------------------------------------
(* Distro resolution: the registry, the host, the errors.                  *)

\* keys under which variants register themselves; minikube is always there
\* (getOSReleaseDistro asserts distros["minikube"] to be a checker)
OptionalKeys == {"ubuntu", "debian"}
\* the variants that implement the optional checker interface
CheckerKeys == {"minikube", "debian"}

\* values of the ID key of os-release, as written in the file
OsIDs == { <<"u","b","u","n","t","u">>, <<"U","b","u","n","t","u">>,
           <<"d","e","b","i","a","n">>,
           <<"m","i","n","i","k","u","b","e">>, <<"M","i","n","i","K","u","b","e">>,
           <<"a","r","c","h">>, <<"A","R","C","H">>, <<>> }

OsReleaseStates ==
    { [kind |-> "missing",    id |-> <<>>],
      [kind |-> "unparsable", id |-> <<>>],
      [kind |-> "noid",       id |-> <<>>] }
    \cup { [kind |-> "id", id |-> v] : v \in OsIDs }

NilDistro == [kind |-> "nil"]
Registered(k) == [kind |-> "registered", key |-> k]
Generic(n) == [kind |-> "generic", obj |-> n]

Uninit == [inited |-> FALSE]

NoDiscover == [called |-> FALSE]

\* the outcome of the k-th init call of one invocation (an input: init is a
\* method of the variant, it may fail)
InitOutcomes == [1..2 -> BOOLEAN]

\* one call d.init(kr, id, cfg) on strategy object obj
InitCall(obj, id, cfg, ok) == [obj |-> obj, id |-> id, cfg |-> cfg, ok |-> ok]

\* mutant: the generic default for an unregistered id is left out
LookupWithoutDefault(reg, id, fresh) == Registered(id)

\* distro, exist := distros[id]; if !exist { distro = &generic{} }
Lookup(reg, id, fresh) ==
    IF id \in DOMAIN reg THEN Registered(id) ELSE Generic(fresh)

\* mutant: the override is applied without looking at the check's answer
OverrideIDUnchecked(id, marks) == "minikube"

\* the identifier after the minikube override:
\* if distros["minikube"].(checker).check(hostRoot) { id = "minikube" }
OverrideID(id, marks) == IF "minikube" \in marks THEN "minikube" ELSE id

getOSReleaseDistro(reg, os, marks, oks, fresh) ==
    IF os.kind \in {"missing", "unparsable"}
    THEN \* ini.Load failed
         [distro |-> NilDistro, err |-> "ErrLoad", inits |-> <<>>]
    ELSE IF os.kind = "noid"
    THEN \* idKey == nil: return nil, nil
         [distro |-> NilDistro, err |-> "nil", inits |-> <<>>]
    ELSE LET id     == OverrideID(ToLower(os.id), marks)
             distro == Lookup(reg, id, fresh)
             call   == InitCall(distro, id, "parsed", oks[1])
         IN  IF ~oks[1]
             THEN [distro |-> NilDistro, err |-> "ErrInit", inits |-> <<call>>]
             ELSE [distro |-> distro, err |-> "nil", inits |-> <<call>>]

\* mutant: the scan stops at a checker without calling its check
MatchingUnchecked(reg, marks) == DOMAIN reg \cap CheckerKeys

\* the variants the fallback scan can stop at: registered checkers whose
\* check(hostRoot) is true. The scan ranges over a Go map, so the first one
\* it meets is any of them.
Matching(reg, marks) == (DOMAIN reg \cap CheckerKeys) \cap marks

ScanChoices(reg, marks) ==
    IF Matching(reg, marks) = {} THEN {"none"} ELSE Matching(reg, marks)

DiscoverDistro(reg, os, marks, pick, oks, fresh) ==
    LET r == getOSReleaseDistro(reg, os, marks, oks, fresh)
        n == Len(r.inits) + 1
    IN  IF r.err = "nil"
        THEN [called |-> TRUE, distro |-> r.distro, err |-> "nil",
              inits |-> r.inits, scanned |-> FALSE]
        ELSE IF pick \in Matching(reg, marks)
        THEN \* err = d.init(kr, id, nil); return d, err
             [called |-> TRUE, distro |-> Registered(pick),
              err |-> IF oks[n] THEN "nil" ELSE "ErrInit",
              inits |-> Append(r.inits, InitCall(Registered(pick), pick, "nil", oks[n])),
              scanned |-> TRUE]
        ELSE LET g == Generic(fresh + 1)
                 call == InitCall(g, "undetermined", "nil", oks[n])
             IN  IF ~oks[n]
                 THEN [called |-> TRUE, distro |-> NilDistro, err |-> "ErrInit",
                       inits |-> Append(r.inits, call), scanned |-> TRUE]
                 ELSE [called |-> TRUE, distro |-> g, err |-> "ErrUnsupported",
                       inits |-> Append(r.inits, call), scanned |-> TRUE]

\* the effect of the init calls on the strategy objects stored in the registry
RECURSIVE ApplyInits(_, _)
ApplyInits(reg, inits) ==
    IF inits = <<>> THEN reg
    ELSE LET c == Head(inits)
             reg1 == IF c.obj.kind = "registered" /\ c.ok
                     THEN [reg EXCEPT ![c.obj.key] =
                               [inited |-> TRUE, id |-> c.id, cfg |-> c.cfg]]
                     ELSE reg
         IN  ApplyInits(reg1, Tail(inits))

-----------------------------------------------------------------------------
(* Download / Build: idle values (filled in below).                        *)

NoCall == [op |-> "none"]
\* what reading a path that holds no file gives
Absent == [kind |-> "absent", from |-> ""]
NoRet == [path |-> "", err |-> "none"]

\* no pure function applied
NoInput == [fn |-> "none"]
NoOutput == [fn |-> "none"]

PureIdle ==
    /\ fnIn = NoInput
    /\ fnOut = NoOutput

\* no kernel source provisioning under way
KsrcIdle ==
    /\ host = {}
    /\ cwdFiles = << >>
    /\ tmpDirs = {}
    /\ kp = << >>

CacheIdle ==
    /\ fs = << >>
    /\ pc = "idle"
    /\ cur = NoCall
    /\ idx = 0
    /\ reqs = <<>>
    /\ attempts = <<>>
    /\ steps = <<>>
    /\ entry = Absent
    /\ ret = NoRet
    /\ prev = NoCall
    /\ ncalls = 0

-----------------------------------------------------------------------------
(* The distro resolution specification.                                    *)

DiscoverInit ==
    /\ \E S \in SUBSET OptionalKeys :
          distros = [k \in {"minikube"} \cup S |-> Uninit]
    /\ osRelease \in OsReleaseStates
    /\ markers \in SUBSET CheckerKeys
    /\ dcalls = 0
    /\ dret = NoDiscover
    /\ dprev = NoDiscover

DiscoverDistroCall ==
    /\ dcalls < MaxDiscover
    /\ \E oks \in InitOutcomes :
       \E pick \in ScanChoices(distros, markers) :
          LET r == DiscoverDistro(distros, osRelease, markers, pick, oks, 2 * dcalls + 1)
          IN  /\ dret' = r
              /\ distros' = ApplyInits(distros, r.inits)
    /\ dprev' = dret
    /\ dcalls' = dcalls + 1
    /\ UNCHANGED <<osRelease, markers>>
    /\ UNCHANGED cvars
    /\ UNCHANGED <<pvars, kvars>>

Init == DiscoverInit /\ CacheIdle /\ PureIdle /\ KsrcIdle

Next == DiscoverDistroCall

Spec == Init /\ [][Next]_vars

-----------------------------------------------------------------------------
(* Download / Build: arguments.                                            *)

\* Build/Download invocations per behaviour
MaxCalls == 2
\* length of the repository list handed to Download
MaxRepos == 2

\* homedir.Get()
HomeDir == "/root"

\* kernelrelease.KernelRelease values handed in by the caller
KernelReleases ==
    { [Fullversion |-> "5.15.0", FullExtraversion |-> "", Extraversion |-> "",
       KernelVersion |-> "5.15.0", Architecture |-> "amd64"],
      [Fullversion |-> "6.1.0", FullExtraversion |-> "-13-cloud", Extraversion |-> "13",
       KernelVersion |-> "1", Architecture |-> "arm64"] }

\* kr.String(): full version followed by the full extra-version
KernelString(kr) == kr.Fullversion \o kr.FullExtraversion

\* kr.Architecture.ToNonDeb()
ToNonDeb(arch) ==
    IF arch = "amd64" THEN "x86_64"
    ELSE IF arch = "arm64" THEN "aarch64"
    ELSE arch

\* strategies handed to Build/Download: the name String() prints and the
\* FixupKernel the variant applies
DistroValues ==
    { [name |-> "ubuntu", fixup |-> "flavor"],
      [name |-> "undetermined", fixup |-> "none"] }

\* d.FixupKernel(kr): a copy of kr; the generic variant returns it as it is,
\* the other one normalizes the extra-version
FixupKernel(d, kr) ==
    IF d.fixup = "flavor" /\ kr.FullExtraversion # ""
    THEN [kr EXCEPT !.FullExtraversion = "-generic", !.Extraversion = "generic",
                    !.KernelVersion = IF @ = "26~18.04.1" THEN "26" ELSE @]
    ELSE kr

\* drivertype.DriverType values and their Extension()
DriverTypes == { [name |-> "ebpf", ext |-> ".o"], [name |-> "kmod", ext |-> ".ko"] }
Extension(driverType) == driverType.ext

DriverName == "falco"
DriverVersion == "6.0.0"

Repos == {"https://bad.example", "https://good.example"}

RECURSIVE SeqsUpTo(_, _)
\* the sequences over S of length at most n
SeqsUpTo(S, n) ==
    IF n = 0 THEN { <<>> }
    ELSE LET shorter == SeqsUpTo(S, n - 1)
         IN  shorter \cup { Append(q, x) : q \in shorter, x \in S }

RepoLists == SeqsUpTo(Repos, MaxRepos)

\* the (distro, kernel release, driver name, driver type, driver version)
\* tuples the caller works with
Tuples ==
    { [d |-> d, kr |-> kr, driverName |-> DriverName, driverType |-> t,
       driverVer |-> DriverVersion] :
        d \in DistroValues, kr \in KernelReleases, t \in DriverTypes }

\* the tuples the invocations of one behaviour are made with
CallTuples ==
    { t \in Tuples :
        \/ t.d.name = "ubuntu" /\ t.kr.Architecture = "arm64" /\ t.driverType.name = "ebpf"
        \/ t.d.name = "undetermined" /\ t.kr.Architecture = "amd64" /\ t.driverType.name = "kmod" }

-----------------------------------------------------------------------------
(* Download / Build: paths, URLs, the copy.                                *)

toURL(repo, driverVer, fileName, arch) ==
    repo \o "/" \o driverVer \o "/" \o arch \o "/" \o fileName

toLocalPath(driverVer, fileName, arch) ==
    HomeDir \o "/.falco/" \o driverVer \o "/" \o arch \o "/" \o fileName

\* mutant: the file name is made from the caller's kernel release
toFilenameUnfixed(d, kr, driverName, driverType) ==
    driverName \o "_" \o d.name \o "_" \o KernelString(kr) \o "_"
        \o kr.KernelVersion \o Extension(driverType)

toFilename(d, kr, driverName, driverType) ==
    LET fixedKR == FixupKernel(d, kr)
    IN  driverName \o "_" \o d.name \o "_" \o KernelString(fixedKR) \o "_"
            \o fixedKR.KernelVersion \o Extension(driverType)

\* mutant: Build places its output under the Debian architecture name
BuildPathDebArch(t) ==
    toLocalPath(t.driverVer, toFilename(t.d, t.kr, t.driverName, t.driverType),
                t.kr.Architecture)

\* the canonical cache path of a tuple, as Build computes it
BuildPath(t) ==
    toLocalPath(t.driverVer, toFilename(t.d, t.kr, t.driverName, t.driverType),
                ToNonDeb(t.kr.Architecture))

\* the canonical cache path of a tuple, as Download computes it
DownloadPath(t) ==
    toLocalPath(t.driverVer, toFilename(t.d, t.kr, t.driverName, t.driverType),
                ToNonDeb(t.kr.Architecture))

\* mutant: the existence check is skipped
CacheHitNever(files, destination) == FALSE

\* if exist, _ := utils.FileExists(destination); exist
CacheHit(files, destination) == destination \in DOMAIN files

\* what the file system can do to one copy
CopyOutcomes == {"ok", "mkdir_err", "create_err", "copy_err"}

\* copyDataToLocalPath(destination, src): MkdirAll, Create (which truncates),
\* io.Copy; a copy that fails midway leaves a partial file behind
copyDataToLocalPath(files, destination, data, io) ==
    IF io = "mkdir_err" THEN [fs |-> files, err |-> "ErrMkdir"]
    ELSE IF io = "create_err" THEN [fs |-> files, err |-> "ErrCreate"]
    ELSE IF io = "copy_err"
    THEN [fs |-> (destination :> [kind |-> "partial", from |-> data]) @@ files,
          err |-> "ErrCopy"]
    ELSE [fs |-> (destination :> [kind |-> "full", from |-> data]) @@ files,
          err |-> "nil"]

\* content of a path
Content(files, path) == IF path \in DOMAIN files THEN files[path] ELSE Absent

\* summary of a finished invocation, kept while the next one runs; sameRepos
\* tells whether the next one is given the same repository list
Summary(c, r, repos) ==
    [op |-> c.op, t |-> c.t, sameRepos |-> (c.repos = repos),
     path |-> r.path, err |-> r.err]

-----------------------------------------------------------------------------
(* Download / Build: the invocations, one action per step.                 *)

\* what one repository attempt can end in: http.NewRequestWithContext fails,
\* the client's Do fails, the status is not 200, the status is 200
AttemptOutcomes == {"req_err", "transport_err", "non200", "ok200"}

\* mutant: the loop goes on after a 200 response
AttemptFailedAlways(outcome) == TRUE

\* mutant: the status code of the response is not looked at
AttemptFailedOnlyTransport(outcome) == outcome \in {"req_err", "transport_err"}

\* the attempt did not produce a 200 response: the loop continues
AttemptFailed(outcome) == outcome # "ok200"

\* mutant: the list is walked from its end
RepoAtReversed(repos, i) == repos[Len(repos) + 1 - i]

\* for _, repo := range repos: the repository of the i-th iteration
RepoAt(repos, i) == repos[i]

\* a new invocation may start when none is running
CanStart == pc \in {"idle", "done"} /\ ncalls < MaxCalls

\* the invocation that finished before the one starting now with repos
Finished(repos) == IF pc = "done" THEN Summary(cur, ret, repos) ELSE prev

\* Download, lines 194-200: the cache path and the cache short-circuit
DownloadStart ==
    /\ CanStart
    /\ \E t \in CallTuples, repos \in RepoLists :
          LET destination == DownloadPath(t)
          IN  /\ cur' = [op |-> "Download", t |-> t, repos |-> repos]
              /\ entry' = Content(fs, destination)
              /\ IF CacheHit(fs, destination)
                 THEN /\ ret' = [path |-> destination, err |-> "nil"]
                      /\ pc' = "done"
                      /\ idx' = 0
                 ELSE /\ ret' = NoRet
                      /\ pc' = "dl_loop"
                      /\ idx' = 1
              /\ prev' = Finished(repos)
    /\ reqs' = <<>>
    /\ attempts' = <<>>
    /\ steps' = <<>>
    /\ ncalls' = ncalls + 1
    /\ UNCHANGED fs
    /\ UNCHANGED dvars
    /\ UNCHANGED <<pvars, kvars>>

\* Download, lines 204-222: one iteration of the loop over repos
DownloadAttempt ==
    /\ pc = "dl_loop"
    /\ idx <= Len(cur.repos)
    /\ \E outcome \in AttemptOutcomes :
       \E io \in (IF AttemptFailed(outcome) THEN {"ok"} ELSE CopyOutcomes) :
          LET t == cur.t
              destination == DownloadPath(t)
              url == toURL(RepoAt(cur.repos, idx), t.driverVer,
                           toFilename(t.d, t.kr, t.driverName, t.driverType),
                           ToNonDeb(t.kr.Architecture))
              r == copyDataToLocalPath(fs, destination, url, io)
          IN  /\ attempts' = Append(attempts, [i |-> idx, url |-> url, outcome |-> outcome])
              /\ reqs' = IF outcome = "req_err" THEN reqs ELSE Append(reqs, url)
              /\ IF AttemptFailed(outcome)
                 THEN /\ idx' = idx + 1
                      /\ UNCHANGED <<fs, ret, pc, steps>>
                 ELSE /\ fs' = r.fs
                      /\ ret' = [path |-> destination, err |-> r.err]
                      /\ steps' = <<[step |-> "copy", io |-> io]>>
                      /\ pc' = "done"
                      /\ UNCHANGED idx
    /\ UNCHANGED <<cur, entry, prev, ncalls>>
    /\ UNCHANGED dvars
    /\ UNCHANGED <<pvars, kvars>>

\* Download, line 223: every repository was tried
DownloadExhausted ==
    /\ pc = "dl_loop"
    /\ idx > Len(cur.repos)
    /\ ret' = [path |-> DownloadPath(cur.t), err |-> "ErrNotFound"]
    /\ pc' = "done"
    /\ UNCHANGED <<fs, cur, idx, reqs, attempts, steps, entry, prev, ncalls>>
    /\ UNCHANGED dvars
    /\ UNCHANGED <<pvars, kvars>>

\* what d.customizeBuild can hand back as the build environment: nothing, or
\* the kernel source directory
BuildEnvs == { {}, {<<"KERNELDIR", "/tmp/kernel/1/kernel-sources">>} }

\* mutant: the backend is given the kernel release as received and no environment
BackendArgsRaw(d, kr, env) == [kr |-> kr, env |-> {}]

\* line 165: driverType.Build(ctx, printer, d.FixupKernel(kr), ..., env)
BackendArgs(d, kr, env) == [kr |-> FixupKernel(d, kr), env |-> env]

\* Build, lines 161-164: d.customizeBuild
BuildStart ==
    /\ CanStart
    /\ \E t \in CallTuples, ok \in BOOLEAN :
       \E env \in (IF ok THEN BuildEnvs ELSE {{}}) :
          /\ cur' = [op |-> "Build", t |-> t, repos |-> <<>>]
          /\ entry' = Content(fs, BuildPath(t))
          /\ steps' = <<[step |-> "customizeBuild", kr |-> t.kr, env |-> env, ok |-> ok]>>
          /\ IF ok
             THEN pc' = "b_backend" /\ ret' = NoRet
             ELSE pc' = "done" /\ ret' = [path |-> "", err |-> "ErrCustomize"]
    /\ prev' = Finished(<<>>)
    /\ reqs' = <<>>
    /\ attempts' = <<>>
    /\ idx' = 0
    /\ ncalls' = ncalls + 1
    /\ UNCHANGED fs
    /\ UNCHANGED dvars
    /\ UNCHANGED <<pvars, kvars>>

\* Build, lines 165-168: driverType.Build with the fixed-up kernel release
BuildBackend ==
    /\ pc = "b_backend"
    /\ \E ok \in BOOLEAN :
          LET args == BackendArgs(cur.t.d, cur.t.kr, steps[1].env)
          IN  /\ steps' = Append(steps, [step |-> "backend", kr |-> args.kr,
                                         env |-> args.env, ok |-> ok])
              /\ IF ok
                 THEN pc' = "b_copy" /\ UNCHANGED ret
                 ELSE pc' = "done" /\ ret' = [path |-> "", err |-> "ErrBackend"]
    /\ UNCHANGED <<fs, cur, idx, reqs, attempts, entry, prev, ncalls>>
    /\ UNCHANGED dvars
    /\ UNCHANGED <<pvars, kvars>>

\* Build, lines 172-180: open the backend's output, copy it to the cache path
BuildCopy ==
    /\ pc = "b_copy"
    /\ \E opened \in BOOLEAN :
       \E io \in (IF opened THEN CopyOutcomes ELSE {"ok"}) :
          LET filePath == BuildPath(cur.t)
              r == copyDataToLocalPath(fs, filePath, "built", io)
          IN  IF ~opened
              THEN /\ steps' = Append(steps, [step |-> "open", ok |-> FALSE])
                   /\ ret' = [path |-> "", err |-> "ErrOpen"]
                   /\ UNCHANGED fs
              ELSE /\ steps' = Append(steps, [step |-> "copy", io |-> io])
                   /\ ret' = [path |-> filePath, err |-> r.err]
                   /\ fs' = r.fs
    /\ pc' = "done"
    /\ UNCHANGED <<cur, idx, reqs, attempts, entry, prev, ncalls>>
    /\ UNCHANGED dvars
    /\ UNCHANGED <<pvars, kvars>>

\* the registry and the host are not looked at by Build and Download
DiscoverIdle ==
    /\ distros = [k \in {"minikube"} |-> Uninit]
    /\ osRelease = [kind |-> "missing", id |-> <<>>]
    /\ markers = {}
    /\ dcalls = 0
    /\ dret = NoDiscover
    /\ dprev = NoDiscover

\* the cache directory before the first invocation: empty, or holding one
\* file put there earlier
CacheInit ==
    /\ fs \in { <<>> } \cup
             { (DownloadPath(t) :> [kind |-> "full", from |-> "earlier"]) : t \in CallTuples }
    /\ pc = "idle"
    /\ cur = NoCall
    /\ idx = 0
    /\ reqs = <<>>
    /\ attempts = <<>>
    /\ steps = <<>>
    /\ entry = Absent
    /\ ret = NoRet
    /\ prev = NoCall
    /\ ncalls = 0

InitCache == DiscoverIdle /\ CacheInit /\ PureIdle /\ KsrcIdle

NextCache ==
    \/ DownloadStart
    \/ DownloadAttempt
    \/ DownloadExhausted
    \/ BuildStart
    \/ BuildBackend
    \/ BuildCopy

SpecCache == InitCache /\ [][NextCache]_vars

-----------------------------------------------------------------------------
(* Claims about distro resolution.                                         *)

\* every init call of the last invocation succeeded
AllInitsOK == \A i \in DOMAIN dret.inits : dret.inits[i].ok

\* os-release was loaded and holds an ID key
Parsed == osRelease.kind = "id"

\* ini.Load failed
LoadFailed == osRelease.kind \in {"missing", "unparsable"}

\* the registered variants whose check(hostRoot) is true
Positive == markers \cap CheckerKeys \cap DOMAIN distros

\* C1: for every host state and every registry in which strategy
\* initialization succeeds, DiscoverDistro returns a non-null strategy, and
\* it never returns a null strategy together with a nil error.
C1_NonNull ==
    dret.called =>
        /\ (AllInitsOK => dret.distro # NilDistro)
        /\ ~(dret.distro = NilDistro /\ dret.err = "nil")

NoOverride == "minikube" \notin markers \/ ToLower(osRelease.id) = "minikube"

C4_MinikubeWins ==
    (dret.called /\ "minikube" \in markers) => dret.distro = Registered("minikube")

\* C5 (as stated): when os-release cannot be loaded, a registered variant
\* whose check succeeded is returned if there is one (initialized with its
\* key, without ErrUnsupported); generic("undetermined") with ErrUnsupported
\* is returned if and only if no registered variant's check succeeds;
\* ErrUnsupported never comes with a null strategy.
C5_Original ==
    (dret.called /\ LoadFailed) =>
        /\ Positive # {} =>
              /\ dret.distro.kind = "registered"
              /\ dret.distro.key \in Positive
              /\ dret.inits[1].obj = dret.distro
              /\ dret.inits[1].id = dret.distro.key
              /\ dret.err # "ErrUnsupported"
        /\ (dret.distro.kind = "generic" /\ dret.err = "ErrUnsupported") <=> Positive = {}
        /\ dret.err = "ErrUnsupported" => dret.distro # NilDistro

\* C5 (amended): as stated, except that generic("undetermined") with
\* ErrUnsupported is returned if and only if no registered variant's check
\* succeeds and the init of the generic strategy succeeds; when that init
\* fails a null strategy is returned with the init error.
C5_Fallback ==
    (dret.called /\ LoadFailed) =>
        /\ Len(dret.inits) = 1
        /\ dret.inits[1].cfg = "nil"
        /\ dret.scanned
        /\ Positive # {} =>
              /\ dret.distro.kind = "registered"
              /\ dret.distro.key \in Positive
              /\ dret.inits[1].obj = dret.distro
              /\ dret.inits[1].id = dret.distro.key
              /\ dret.err = (IF dret.inits[1].ok THEN "nil" ELSE "ErrInit")
        /\ (dret.distro.kind = "generic" /\ dret.err = "ErrUnsupported")
              <=> (Positive = {} /\ dret.inits[1].ok)
        /\ (dret.distro.kind = "generic" /\ dret.err = "ErrUnsupported")
              => (dret.inits[1].obj = dret.distro /\ dret.inits[1].id = "undetermined")
        /\ (Positive = {} /\ ~dret.inits[1].ok)
              => (dret.distro = NilDistro /\ dret.err = "ErrInit")
        /\ dret.err = "ErrUnsupported" => dret.distro # NilDistro

\* C5 witness: os-release missing, the only marker present belongs to a
\* variant that is not registered, generic returned with ErrUnsupported
C5_Witness ==
    /\ dret.called
    /\ osRelease.kind = "missing"
    /\ markers = {"debian"}
    /\ "debian" \notin DOMAIN distros
    /\ dret.distro.kind = "generic"
    /\ dret.err = "ErrUnsupported"

\* C5 second case reached: a matching registered checker is returned
C5_WitnessMatch ==
    /\ dret.called
    /\ LoadFailed
    /\ dret.distro = Registered("debian")
    /\ dret.err = "nil"

-----------------------------------------------------------------------------
(* Claims about Download and Build.                                        *)

\* the cache layout of section 6, written out for the tuples in use:
\* <home>/.falco/<driverVersion>/<arch>/<name>_<distro>_<kernel>_<version><ext>
ExpectedPath(t) ==
    IF t.d.name = "ubuntu"
    THEN "/root/.falco/6.0.0/aarch64/falco_ubuntu_6.1.0-generic_1.o"
    ELSE "/root/.falco/6.0.0/x86_64/falco_undetermined_5.15.0_5.15.0.ko"

\* the URL a repository is asked for
ExpectedURL(repo, t) ==
    IF t.d.name = "ubuntu"
    THEN repo \o "/6.0.0/aarch64/falco_ubuntu_6.1.0-generic_1.o"
    ELSE repo \o "/6.0.0/x86_64/falco_undetermined_5.15.0_5.15.0.ko"

DownloadDone == pc = "done" /\ cur.op = "Download"

\* the attempts that got as far as sending a GET
Sent == SelectSeq(attempts, LAMBDA a : a.outcome # "req_err")

\* C6: a Download called while a file exists at the canonical cache path
\* returns that path with a nil error and issues no HTTP request; hence a
\* Download that follows a successful Download with identical arguments
\* issues no request and returns the same path.
C6_CacheShortCircuit ==
    DownloadDone =>
        /\ entry # Absent =>
              /\ ret = [path |-> ExpectedPath(cur.t), err |-> "nil"]
              /\ reqs = <<>>
              /\ attempts = <<>>
              /\ Content(fs, ret.path) = entry
        /\ (prev.op = "Download" /\ prev.t = cur.t /\ prev.sameRepos /\ prev.err = "nil") =>
              /\ ret = [path |-> prev.path, err |-> "nil"]
              /\ reqs = <<>>
              /\ attempts = <<>>

\* C6 witness: a Download that fetched the file from a repository is
\* followed by one with the same arguments, which sends nothing
C6_Witness ==
    /\ DownloadDone
    /\ prev.op = "Download" /\ prev.t = cur.t /\ prev.sameRepos /\ prev.err = "nil"
    /\ cur.repos # <<>>
    /\ ret.path \in DOMAIN fs
    /\ fs[ret.path].from = ExpectedURL("https://good.example", cur.t)
    /\ reqs = <<>>

\* repositories are attempted in list order, each position once, and the
\* GETs sent are those of the attempts whose request could be built
OrderedAttempts ==
    cur.op = "Download" =>
        /\ Len(attempts) <= Len(cur.repos)
        /\ \A k \in DOMAIN attempts :
              /\ attempts[k].i = k
              /\ attempts[k].url = ExpectedURL(cur.repos[k], cur.t)
              /\ \A j \in 1..(k - 1) :
                    attempts[j].outcome \in {"req_err", "transport_err", "non200"}
        /\ reqs = [k \in DOMAIN Sent |-> Sent[k].url]
        /\ attempts # <<>> => entry = Absent

\* a Download of [bad, good] in which bad failed and good answered 200
BadThenGood ==
    /\ DownloadDone
    /\ entry = Absent
    /\ cur.repos = <<"https://bad.example", "https://good.example">>
    /\ Len(attempts) = 2
    /\ attempts[1].outcome # "ok200"
    /\ attempts[2].outcome = "ok200"

\* C7 (as stated): on a cache miss the repositories are attempted strictly in
\* list order, each at most once, the GET for repos[k] only after every
\* earlier attempt failed; with [bad, good], bad failing and good answering
\* 200, Download succeeds using good.
C7_Original ==
    /\ OrderedAttempts
    /\ BadThenGood =>
          /\ ret = [path |-> ExpectedPath(cur.t), err |-> "nil"]
          /\ fs[ret.path] = [kind |-> "full", from |-> attempts[2].url]

\* C7 (amended): the same ordering; with [bad, good], bad failing and good
\* answering 200, Download copies good's body to the cache path and returns
\* the result of that copy: success when the copy succeeds, the copy's
\* error otherwise.
C7_Ordered ==
    /\ OrderedAttempts
    /\ BadThenGood =>
          /\ ret.path = ExpectedPath(cur.t)
          /\ Len(steps) = 1 /\ steps[1].step = "copy"
          /\ steps[1].io = "ok" =>
                /\ ret.err = "nil"
                /\ fs[ret.path] = [kind |-> "full", from |-> attempts[2].url]
          /\ steps[1].io # "ok" => ret.err \in {"ErrMkdir", "ErrCreate", "ErrCopy"}

\* C7 witness: [bad, good], bad unreachable, good's body in the cache
C7_Witness ==
    /\ BadThenGood
    /\ attempts[1].outcome = "transport_err"
    /\ ret.err = "nil"
    /\ fs[ret.path].from = ExpectedURL("https://good.example", cur.t)
    /\ reqs = <<ExpectedURL("https://bad.example", cur.t),
                ExpectedURL("https://good.example", cur.t)>>

\* some attempt of the finished Download got a 200 response
Got200 == DownloadDone /\ \E k \in DOMAIN attempts : attempts[k].outcome = "ok200"

\* C8 (as stated): the first repository answering 200 wins: its body is
\* written to the canonical cache path, Download returns success, and no
\* repository after it is requested.
C8_Original ==
    Got200 =>
        /\ attempts[Len(attempts)].outcome = "ok200"
        /\ \A k \in 1..(Len(attempts) - 1) : attempts[k].outcome # "ok200"
        /\ ret = [path |-> ExpectedPath(cur.t), err |-> "nil"]
        /\ fs[ret.path] = [kind |-> "full", from |-> attempts[Len(attempts)].url]

\* C8 (amended): the first repository answering 200 wins: its body is copied
\* to the canonical cache path and Download returns the result of that copy
\* (success, with the whole body in place, when the copy succeeds; the
\* copy's error otherwise); no repository after it is requested.
C8_First200Wins ==
    /\ Got200 =>
          /\ attempts[Len(attempts)].outcome = "ok200"
          /\ \A k \in 1..(Len(attempts) - 1) : attempts[k].outcome # "ok200"
          /\ reqs[Len(reqs)] = attempts[Len(attempts)].url
          /\ ret.path = ExpectedPath(cur.t)
          /\ Len(steps) = 1 /\ steps[1].step = "copy"
          /\ steps[1].io = "ok" =>
                /\ ret.err = "nil"
                /\ fs[ret.path] = [kind |-> "full", from |-> attempts[Len(attempts)].url]
          /\ steps[1].io # "ok" => ret.err \in {"ErrMkdir", "ErrCreate", "ErrCopy"}
    /\ (cur.op = "Download" /\ pc = "dl_loop") =>
          \A k \in DOMAIN attempts : attempts[k].outcome # "ok200"

\* C8 witness: the first of two repositories answers 200 and the second one
\* is never asked
C8_Witness ==
    /\ Got200
    /\ Len(cur.repos) = 2
    /\ Len(attempts) = 1
    /\ reqs = <<ExpectedURL(cur.repos[1], cur.t)>>
    /\ ret.err = "nil"
    /\ fs[ret.path].kind = "full"

\* a finished Download that found no file and whose every repository failed
AllFailed ==
    /\ DownloadDone
    /\ entry = Absent
    /\ Len(attempts) = Len(cur.repos)
    /\ \A k \in DOMAIN attempts : attempts[k].outcome # "ok200"

\* C9: if the cache path does not exist and every repository of the list
\* (the empty list included) fails, Download returns a non-nil error with
\* the canonical cache path, and has created no file at that path.
C9_Exhausted ==
    AllFailed =>
        /\ ret.err # "nil"
        /\ ret.path = ExpectedPath(cur.t)
        /\ ret.path \notin DOMAIN fs

\* C9 witness: two repositories, a transport error and a non-200 status
C9_Witness ==
    /\ AllFailed
    /\ Len(attempts) = 2
    /\ attempts[1].outcome = "transport_err"
    /\ attempts[2].outcome = "non200"
    /\ ret.err = "ErrNotFound"

\* C9 second case reached: the empty list
C9_WitnessEmpty == AllFailed /\ cur.repos = <<>> /\ ret.err = "ErrNotFound"

\* C10: after a Build that returned success, a Download with the same tuple
\* returns the same path as that Build, with a nil error and without any
\* HTTP request.
C10_SameSlot ==
    (DownloadDone /\ prev.op = "Build" /\ prev.t = cur.t /\ prev.err = "nil") =>
        /\ ret = [path |-> prev.path, err |-> "nil"]
        /\ ret.path = ExpectedPath(cur.t)
        /\ reqs = <<>>
        /\ attempts = <<>>

\* C10 witness: the built driver is found by a Download given repositories
C10_Witness ==
    /\ DownloadDone
    /\ prev.op = "Build" /\ prev.t = cur.t /\ prev.err = "nil"
    /\ cur.repos # <<>>
    /\ fs[ret.path] = [kind |-> "full", from |-> "built"]
    /\ cur.t.d.name = "ubuntu"
    /\ reqs = <<>>

-----------------------------------------------------------------------------
(* The cache path as a function of its arguments.                          *)

\* kernel releases the path is computed for: the two above and one whose
\* fix-up changes the kernel version as well as the extra-version
PathKernels ==
    KernelReleases \cup
    { [Fullversion |-> "5.4.0", FullExtraversion |-> "-1024-aws", Extraversion |-> "1024",
       KernelVersion |-> "26~18.04.1", Architecture |-> "amd64"] }

PathDistros == DistroValues \cup { [name |-> "minikube", fixup |-> "none"] }

PathInputs ==
    { [fn |-> "path", d |-> d, kr |-> kr, driverName |-> n, driverType |-> t,
       driverVer |-> v] :
        d \in PathDistros, kr \in PathKernels, n \in {"falco", "scap"},
        t \in DriverTypes, v \in {"6.0.0", "7.0.0+driver"} }

PathInit ==
    /\ fnIn \in PathInputs
    /\ fnOut = NoOutput

\* the path Build writes to and the path Download looks at, for one tuple
ComputePaths ==
    /\ fnIn.fn = "path"
    /\ fnOut = NoOutput
    /\ fnOut' = [fn |-> "path", build |-> BuildPath(fnIn), download |-> DownloadPath(fnIn)]
    /\ UNCHANGED fnIn
    /\ UNCHANGED <<dvars, cvars, kvars>>

InitPath == DiscoverIdle /\ CacheIdle /\ KsrcIdle /\ PathInit

NextPath == ComputePaths

SpecPath == InitPath /\ [][NextPath]_vars

\* the non-Debian name of an architecture
NonDebName(arch) == IF arch = "amd64" THEN "x86_64" ELSE "aarch64"

\* <home>/.falco/<driverVersion>/<arch>/<name>_<distro>_<kernel>_<version><ext>
\* with the kernel string and version of the kernel release k
Layout(in, k) ==
    "/root/.falco/" \o in.driverVer \o "/" \o NonDebName(in.kr.Architecture) \o "/"
        \o in.driverName \o "_" \o in.d.name \o "_"
        \o k.Fullversion \o k.FullExtraversion \o "_" \o k.KernelVersion
        \o in.driverType.ext

\* the scenario of section 8: kernel 5.15.0 without extra-version, amd64,
\* ubuntu, falco, ".o", 6.0.0
Scenario ==
    /\ fnIn.fn = "path"
    /\ fnIn.d.name = "ubuntu"
    /\ fnIn.kr.Fullversion = "5.15.0"
    /\ fnIn.driverName = "falco"
    /\ fnIn.driverType.ext = ".o"
    /\ fnIn.driverVer = "6.0.0"

\* C11: the canonical cache path is
\* <home>/.falco/<driverVersion>/<normalizedArch>/<driverName>_<distroString>_
\* <fixedKernelString>_<fixedKernelVersion><extension>, the kernel string and
\* version being those of the fixed-up kernel release and the architecture
\* the non-Debian name; the scenario of section 8 gives
\* ~/.falco/6.0.0/x86_64/falco_ubuntu_5.15.0_5.15.0.o.
C11_CachePath ==
    fnOut.fn = "path" =>
        /\ fnOut.build = Layout(fnIn, FixupKernel(fnIn.d, fnIn.kr))
        /\ fnOut.download = fnOut.build
        /\ Scenario => fnOut.build = "/root/.falco/6.0.0/x86_64/falco_ubuntu_5.15.0_5.15.0.o"

\* C11 witness: a tuple whose fixed-up kernel release differs from the
\* caller's, the path carrying the fixed-up extra-version
C11_Witness ==
    /\ fnOut.fn = "path"
    /\ FixupKernel(fnIn.d, fnIn.kr) # fnIn.kr
    /\ fnOut.build = "/root/.falco/6.0.0/aarch64/falco_ubuntu_6.1.0-generic_1.o"
    /\ fnOut.build # Layout(fnIn, fnIn.kr)

\* C11, the kernel version of the fixed-up copy is the one in the path
C11_WitnessVersion ==
    /\ fnOut.fn = "path"
    /\ fnOut.build = "/root/.falco/7.0.0+driver/x86_64/scap_ubuntu_5.4.0-generic_26.ko"

\* C11 scenario reached
C11_WitnessScenario ==
    /\ fnOut.fn = "path"
    /\ Scenario
    /\ fnOut.download = "/root/.falco/6.0.0/x86_64/falco_ubuntu_5.15.0_5.15.0.o"

-----------------------------------------------------------------------------
(* getKernelConfig as a function of the files present.                     *)

HostRoots == {"", "/host"}

\* mutant: the host-root copies are looked at before the real ones
toBeCheckedHostFirst(kr, hostRoot) ==
    LET k == KernelString(kr)
    IN  << "/proc/config.gz",
           hostRoot \o "/boot/config-" \o k,
           "/boot/config-" \o k,
           hostRoot \o "/usr/lib/ostree-boot/config-" \o k,
           "/usr/lib/ostree-boot/config-" \o k,
           "/lib/modules/" \o k \o "/config" >>

\* the candidates, in the order of lines 248-255
toBeChecked(kr, hostRoot) ==
    LET bootConfig == "/boot/config-" \o KernelString(kr)
        hrBootConfig == hostRoot \o bootConfig
        ostreeConfig == "/usr/lib/ostree-boot/config-" \o KernelString(kr)
        hrostreeConfig == hostRoot \o ostreeConfig
        libModulesConfig == "/lib/modules/" \o KernelString(kr) \o "/config"
    IN  << "/proc/config.gz", bootConfig, hrBootConfig, ostreeConfig,
           hrostreeConfig, libModulesConfig >>

RECURSIVE FirstExisting(_, _)
\* for _, path := range toBeChecked { if exist { return path, nil } }
FirstExisting(paths, files) ==
    IF paths = <<>> THEN [path |-> "", err |-> "ErrNoConfig"]
    ELSE IF Head(paths) \in files THEN [path |-> Head(paths), err |-> "nil"]
    ELSE FirstExisting(Tail(paths), files)

getKernelConfig(files, kr, hostRoot) == FirstExisting(toBeChecked(kr, hostRoot), files)

\* the elements of a sequence
Range(q) == { q[i] : i \in DOMAIN q }

ConfigInit ==
    /\ \E kr \in KernelReleases, hostRoot \in HostRoots :
       \E files \in SUBSET Range(toBeChecked(kr, hostRoot)) :
          fnIn = [fn |-> "config", kr |-> kr, hostRoot |-> hostRoot, files |-> files]
    /\ fnOut = NoOutput

LookupKernelConfig ==
    /\ fnIn.fn = "config"
    /\ fnOut = NoOutput
    /\ fnOut' = [fn |-> "config", r |-> getKernelConfig(fnIn.files, fnIn.kr, fnIn.hostRoot)]
    /\ UNCHANGED fnIn
    /\ UNCHANGED <<dvars, cvars, kvars>>

InitConfig == DiscoverIdle /\ CacheIdle /\ KsrcIdle /\ ConfigInit

NextConfig == LookupKernelConfig

SpecConfig == InitConfig /\ [][NextConfig]_vars

\* the fixed order of section 6, for kernel string k and host root h
ConfigOrder(k, h) ==
    << "/proc/config.gz",
       "/boot/config-" \o k,
       h \o "/boot/config-" \o k,
       "/usr/lib/ostree-boot/config-" \o k,
       h \o "/usr/lib/ostree-boot/config-" \o k,
       "/lib/modules/" \o k \o "/config" >>

\* C12: getKernelConfig returns the first existing path of the fixed order:
\* the returned path exists and no candidate earlier in the order exists; if
\* none exists it returns an error and an empty path.
C12_FirstExistingConfig ==
    fnOut.fn = "config" =>
        LET order == ConfigOrder(fnIn.kr.Fullversion \o fnIn.kr.FullExtraversion,
                                 fnIn.hostRoot)
            r == fnOut.r
        IN  IF \E i \in 1..6 : order[i] \in fnIn.files
            THEN /\ r.err = "nil"
                 /\ r.path \in fnIn.files
                 /\ \E i \in 1..6 :
                       /\ order[i] = r.path
                       /\ \A j \in 1..(i - 1) : order[j] \notin fnIn.files
            ELSE r.path = "" /\ r.err # "nil"

\* C12 witness: the boot config exists under the real root and under the
\* host root, the real one is returned
C12_Witness ==
    /\ fnOut.fn = "config"
    /\ fnIn.hostRoot = "/host"
    /\ fnIn.files = {"/boot/config-6.1.0-13-cloud", "/host/boot/config-6.1.0-13-cloud",
                     "/lib/modules/6.1.0-13-cloud/config"}
    /\ fnOut.r = [path |-> "/boot/config-6.1.0-13-cloud", err |-> "nil"]

\* C12 second case reached: no candidate exists
C12_WitnessNone ==
    /\ fnOut.fn = "config"
    /\ fnIn.files = {}
    /\ fnOut.r = [path |-> "", err |-> "ErrNoConfig"]

-----------------------------------------------------------------------------
(* C13: the steps of Build.                                                *)

BuildRunning == cur.op = "Build"

\* C13: Build runs customizeBuild, then the backend with the fixed-up kernel
\* release and the environment customizeBuild returned, then the copy into
\* the cache path; it stops at the first failing step with that step's
\* error, and when customizeBuild or the backend failed the cache path holds
\* what it held before.
C13_BuildOrder ==
    BuildRunning =>
        /\ Len(steps) \in 1..3
        /\ steps[1].step = "customizeBuild"
        /\ Len(steps) >= 2 =>
              /\ steps[1].ok
              /\ steps[2].step = "backend"
              /\ steps[2].kr = FixupKernel(cur.t.d, cur.t.kr)
              /\ steps[2].env = steps[1].env
        /\ Len(steps) = 3 =>
              /\ steps[2].ok
              /\ steps[3].step \in {"open", "copy"}
              /\ pc = "done"
        /\ (Len(steps) = 1 /\ ~steps[1].ok) =>
              /\ pc = "done"
              /\ ret = [path |-> "", err |-> "ErrCustomize"]
              /\ Content(fs, ExpectedPath(cur.t)) = entry
        /\ (Len(steps) = 2 /\ ~steps[2].ok) =>
              /\ pc = "done"
              /\ ret = [path |-> "", err |-> "ErrBackend"]
              /\ Content(fs, ExpectedPath(cur.t)) = entry
        /\ (Len(steps) = 3 /\ steps[3].step = "open") =>
              /\ ret = [path |-> "", err |-> "ErrOpen"]
              /\ Content(fs, ExpectedPath(cur.t)) = entry
        /\ (Len(steps) = 3 /\ steps[3].step = "copy") =>
              /\ ret.path = ExpectedPath(cur.t)
              /\ (ret.err = "nil") = (steps[3].io = "ok")
        /\ pc = "done" =>
              \/ Len(steps) = 3
              \/ ~steps[Len(steps)].ok

\* C13 witness: the backend failed after a customization that returned an
\* environment and fixed up the kernel release; the file already at the
\* cache path is still the one put there earlier
C13_Witness ==
    /\ BuildRunning
    /\ pc = "done"
    /\ Len(steps) = 2
    /\ steps[1].env # {}
    /\ steps[2].env = steps[1].env
    /\ steps[2].kr # cur.t.kr
    /\ ret.err = "ErrBackend"
    /\ entry = [kind |-> "full", from |-> "earlier"]
    /\ Content(fs, ExpectedPath(cur.t)) = entry

\* C13 second case reached: customizeBuild failed, the backend never ran
C13_WitnessCustomize ==
    /\ BuildRunning
    /\ pc = "done"
    /\ Len(steps) = 1
    /\ ret.err = "ErrCustomize"

\* C13 third case reached: all three steps ran and the file was written
C13_WitnessCopied ==
    /\ BuildRunning
    /\ pc = "done"
    /\ Len(steps) = 3
    /\ steps[3] = [step |-> "copy", io |-> "ok"]
    /\ ret.err = "nil"
    /\ Content(fs, ExpectedPath(cur.t)) = [kind |-> "full", from |-> "built"]

-----------------------------------------------------------------------------
(* C14, C15: the fallback scan and the identity of the returned strategy.  *)

\* C14: once os-release has been parsed, DiscoverDistro never runs the
\* checker scan and never returns ErrUnsupported, including when the chosen
\* strategy's init returns an error.
C14_ScanOnlyAfterLoadFailure ==
    (dret.called /\ ~LoadFailed) =>
        /\ ~dret.scanned
        /\ dret.err # "ErrUnsupported"

\* the strategy objects an invocation returned or called init on
Touched(r) ==
    { r.inits[i].obj : i \in DOMAIN r.inits } \cup
    (IF r.distro = NilDistro THEN {} ELSE {r.distro})

\* C15: an invocation never calls init on a strategy stored in the registry,
\* and two invocations never return or initialize the same strategy object.
C15_PerInvocation ==
    /\ dret.called =>
          \A i \in DOMAIN dret.inits : dret.inits[i].obj.kind # "registered"
    /\ (dret.called /\ dprev.called) => Touched(dret) \cap Touched(dprev) = {}

-----------------------------------------------------------------------------
(* C16: what a nil error of Download says about the destination file.      *)

\* the invocation before this one was a Download with the same arguments
RepeatedDownload ==
    /\ DownloadDone
    /\ prev.op = "Download"
    /\ prev.t = cur.t
    /\ prev.sameRepos

\* C16: a Download that repeats a Download whose copy failed and was reported
\* with an error does not return a nil error for the partially written
\* destination: a nil error means the file is a complete response body or was
\* there before the first call.
C16_NoPartialSuccess ==
    (RepeatedDownload /\ ret.err = "nil") =>
        /\ Content(fs, ret.path).kind = "full"
        /\ Content(fs, ret.path).from \in
              {"earlier"} \cup { ExpectedURL(repo, cur.t) : repo \in Repos }

-----------------------------------------------------------------------------
(* The kernel source provisioner: downloadKernelSrc followed, when it      *)
(* succeeded, by customizeDownloadKernelSrcBuild, for two invocations of   *)
(* one process.                                                            *)

\* the invocations
Procs == {"p1", "p2"}

\* the hostRoot argument
KsrcHostRoot == "/host"

\* the working directory of the process, against which ".config" resolves
Cwd == "/work"
Abs(name) == Cwd \o "/" \o name

\* kernelSrcDownloadFolder and kernelDirEnv
kernelSrcDownloadFolder == "kernel-sources"
kernelDirEnv == "KERNELDIR"

\* names os.MkdirTemp("/tmp/kernel", "") can come up with
TempNames == {"/tmp/kernel/a", "/tmp/kernel/b"}

\* mutant: the name may be one that is taken
TempCandidatesAny(taken) == TempNames

\* os.MkdirTemp creates a directory that did not exist
TempCandidates(taken) == TempNames \ taken

\* the url argument
KsrcURL(kr) == "https://kernel.example/linux-" \o kr.Fullversion \o ".tar.gz"

\* the kernel config files the host may hold
HostConfigs ==
    { {},
      {"/proc/config.gz"},
      { "/host/boot/config-" \o KernelString(kr) : kr \in KernelReleases } }

\* an invocation about to enter downloadKernelSrc
KsrcStart(kr) ==
    [at |-> "tempdir", kr |-> kr, url |-> KsrcURL(kr), tempDir |-> "",
     gets |-> <<>>, dlog |-> <<>>, config |-> "", wrote |-> "",
     returned |-> FALSE, env |-> {}, envNil |-> FALSE, err |-> "none",
     clog |-> <<>>, cerr |-> "none"]

KsrcInit ==
    /\ host \in HostConfigs
    /\ cwdFiles = << >>
    /\ tmpDirs = {}
    /\ kp \in [Procs -> { KsrcStart(kr) : kr \in KernelReleases }]

\* one step of the log
Did(step, ok) == [step |-> step, ok |-> ok]

\* downloadKernelSrc returns (env, err) with the map still empty
ReturnEnv(s, log, err) ==
    [s EXCEPT !.at = "done", !.dlog = s.dlog \o log, !.returned = TRUE,
              !.env = {}, !.envNil = FALSE, !.err = err]

\* downloadKernelSrc returns (nil, err)
ReturnNil(s, log, err) ==
    [s EXCEPT !.at = "done", !.dlog = s.dlog \o log, !.returned = TRUE,
              !.env = {}, !.envNil = TRUE, !.err = err]

\* lines 275-282: os.MkdirAll("/tmp/kernel"), os.MkdirTemp("/tmp/kernel", "")
KsrcTempDir(p) ==
    /\ kp[p].at = "tempdir"
    /\ \/ /\ kp' = [kp EXCEPT ![p] = ReturnEnv(@, <<Did("MkdirAll", FALSE)>>, "ErrMkdirAll")]
          /\ UNCHANGED tmpDirs
       \/ /\ kp' = [kp EXCEPT ![p] = ReturnEnv(@, <<Did("MkdirAll", TRUE),
                                                    Did("MkdirTemp", FALSE)>>, "ErrMkdirTemp")]
          /\ UNCHANGED tmpDirs
       \/ \E dir \in TempCandidates(tmpDirs) :
             /\ kp' = [kp EXCEPT ![p] =
                          [@ EXCEPT !.at = "get", !.tempDir = dir,
                                    !.dlog = @ \o <<Did("MkdirAll", TRUE),
                                                    Did("MkdirTemp", TRUE)>>]]
             /\ tmpDirs' = tmpDirs \cup {dir}
    /\ UNCHANGED <<host, cwdFiles>>
    /\ UNCHANGED <<dvars, cvars, pvars>>

\* what the request can end in
GetOutcomes == {"req_err", "transport_err", "non200", "ok200"}

\* mutant: the status code is not looked at
GetFailedOnlyTransport(outcome) == outcome \in {"req_err", "transport_err"}

\* lines 285-297: every outcome but a 200 response returns
GetFailed(outcome) == outcome # "ok200"

GetError(outcome) ==
    IF outcome = "req_err" THEN "ErrNewRequest"
    ELSE IF outcome = "transport_err" THEN "ErrTransport"
    ELSE "ErrNon200"

GetLog(outcome) ==
    IF outcome = "req_err" THEN <<Did("NewRequest", FALSE)>>
    ELSE IF outcome = "transport_err" THEN <<Did("NewRequest", TRUE), Did("Do", FALSE)>>
    ELSE <<Did("NewRequest", TRUE), Did("Do", TRUE), Did("Status", outcome = "ok200")>>

\* lines 285-297: the GET of the tarball
KsrcGet(p) ==
    /\ kp[p].at = "get"
    /\ \E outcome \in GetOutcomes :
          LET sent == IF outcome = "req_err" THEN kp[p].gets
                      ELSE Append(kp[p].gets, kp[p].url)
          IN  kp' = [kp EXCEPT ![p] =
                        IF GetFailed(outcome)
                        THEN [ReturnEnv(@, GetLog(outcome), GetError(outcome))
                                 EXCEPT !.gets = sent]
                        ELSE [@ EXCEPT !.at = "extract", !.gets = sent,
                                       !.dlog = @ \o GetLog(outcome)]]
    /\ UNCHANGED <<host, cwdFiles, tmpDirs>>
    /\ UNCHANGED <<dvars, cvars, pvars>>

\* line 301: filepath.Join(tempDir, kernelSrcDownloadFolder)
fullKernelDir(tempDir) == tempDir \o "/" \o kernelSrcDownloadFolder

\* lines 303-311: os.Mkdir(fullKernelDir), utils.ExtractTarGz
KsrcExtract(p) ==
    /\ kp[p].at = "extract"
    /\ \/ kp' = [kp EXCEPT ![p] = ReturnEnv(@, <<Did("Mkdir", FALSE)>>, "ErrMkdir")]
       \/ kp' = [kp EXCEPT ![p] = ReturnEnv(@, <<Did("Mkdir", TRUE),
                                                 Did("ExtractTarGz", FALSE)>>, "ErrExtract")]
       \/ kp' = [kp EXCEPT ![p] =
                    [@ EXCEPT !.at = "config",
                              !.dlog = @ \o <<Did("Mkdir", TRUE), Did("ExtractTarGz", TRUE)>>]]
    /\ UNCHANGED <<host, cwdFiles, tmpDirs>>
    /\ UNCHANGED <<dvars, cvars, pvars>>

\* lines 313-316: getKernelConfig
KsrcFindConfig(p) ==
    /\ kp[p].at = "config"
    /\ LET r == getKernelConfig(host, kp[p].kr, KsrcHostRoot)
       IN  kp' = [kp EXCEPT ![p] =
                     IF r.err # "nil"
                     THEN ReturnNil(@, <<Did("getKernelConfig", FALSE)>>, r.err)
                     ELSE [@ EXCEPT !.at = "create", !.config = r.path,
                                    !.dlog = @ \o <<Did("getKernelConfig", TRUE)>>]]
    /\ UNCHANGED <<host, cwdFiles, tmpDirs>>
    /\ UNCHANGED <<dvars, cvars, pvars>>

\* the file os.Create leaves: empty, whatever it held
Created(p) == [kind |-> "empty", owner |-> p, src |-> "", patched |-> ""]

\* lines 317-320: os.Create(".config"), a name relative to the working directory
KsrcCreateConfig(p) ==
    /\ kp[p].at = "create"
    /\ \/ /\ kp' = [kp EXCEPT ![p] = ReturnNil(@, <<Did("Create", FALSE)>>, "ErrCreate")]
          /\ UNCHANGED cwdFiles
       \/ /\ kp' = [kp EXCEPT ![p] =
                       [@ EXCEPT !.at = "copy", !.wrote = Abs(".config"),
                                 !.dlog = @ \o <<Did("Create", TRUE)>>]]
          /\ cwdFiles' = (".config" :> Created(p))
    /\ UNCHANGED <<host, tmpDirs>>
    /\ UNCHANGED <<dvars, cvars, pvars>>

\* a variant's customizeBuild goes on to customizeDownloadKernelSrcBuild once
\* downloadKernelSrc returned without error
AfterDownload == "customize"

\* what io.CopyN leaves in the file p created: p's config when nobody else
\* touched the file since, a mix of both writers' bytes otherwise
Written(p, complete) ==
    LET f == cwdFiles[".config"]
    IN  [kind |-> IF f.owner # p \/ f.kind # "empty" THEN "mixed"
                  ELSE IF complete THEN "full" ELSE "partial",
         owner |-> p, src |-> kp[p].config, patched |-> ""]

\* lines 321-340: open the config found, copy it, set env[KERNELDIR]
KsrcCopyConfig(p) ==
    /\ kp[p].at = "copy"
    /\ \/ /\ kp' = [kp EXCEPT ![p] = ReturnNil(@, <<Did("Open", FALSE)>>, "ErrOpen")]
          /\ UNCHANGED cwdFiles
       \/ /\ kp' = [kp EXCEPT ![p] = ReturnNil(@, <<Did("Open", TRUE),
                                                    Did("Stat", FALSE)>>, "ErrStat")]
          /\ UNCHANGED cwdFiles
       \/ /\ kp' = [kp EXCEPT ![p] = ReturnNil(@, <<Did("Open", TRUE), Did("Stat", TRUE),
                                                    Did("CopyN", FALSE)>>, "ErrCopyN")]
          /\ cwdFiles' = (".config" :> Written(p, FALSE))
       \/ /\ kp' = [kp EXCEPT ![p] =
                       [@ EXCEPT !.at = AfterDownload, !.returned = TRUE, !.err = "nil",
                                 !.env = {<<kernelDirEnv, fullKernelDir(kp[p].tempDir)>>},
                                 !.dlog = @ \o <<Did("Open", TRUE), Did("Stat", TRUE),
                                                 Did("CopyN", TRUE)>>]]
          /\ cwdFiles' = (".config" :> Written(p, TRUE))
    /\ UNCHANGED <<host, tmpDirs>>
    /\ UNCHANGED <<dvars, cvars, pvars>>

\* mutant: the LOCALVERSION line is patched for every kernel release
PatchNeededAlways(kr) == TRUE

\* line 228: if kr.Extraversion != ""
PatchNeeded(kr) == kr.Extraversion # ""

\* a step of customizeDownloadKernelSrcBuild: the file it worked on, whose
\* config that file held, and how the step ended
Used(step, ok) ==
    [step |-> step, file |-> Abs(".config"),
     owner |-> cwdFiles[".config"].owner, kind |-> cwdFiles[".config"].kind, ok |-> ok]

\* lines 228-233: utils.ReplaceLineInFile(".config", "LOCALVERSION=", ...)
KsrcPatch(p) ==
    /\ kp[p].at = AfterDownload
    /\ PatchNeeded(kp[p].kr)
    /\ \E ok \in BOOLEAN :
          /\ kp' = [kp EXCEPT ![p] =
                       [@ EXCEPT !.at = IF ok THEN "olddefconfig" ELSE "done",
                                 !.clog = Append(@, Used("patch", ok)),
                                 !.cerr = IF ok THEN "none" ELSE "ErrPatch"]]
          /\ cwdFiles' = IF ok
                         THEN [cwdFiles EXCEPT ![".config"].patched = kp[p].kr.Extraversion]
                         ELSE cwdFiles
    /\ UNCHANGED <<host, tmpDirs>>
    /\ UNCHANGED <<dvars, cvars, pvars>>

\* line 234: make olddefconfig, in the working directory
KsrcOldDefConfig(p) ==
    /\ \/ kp[p].at = "olddefconfig"
       \/ kp[p].at = AfterDownload /\ ~PatchNeeded(kp[p].kr)
    /\ \E ok \in BOOLEAN :
          kp' = [kp EXCEPT ![p] =
                    [@ EXCEPT !.at = IF ok THEN "modules_prepare" ELSE "done",
                              !.clog = Append(@, Used("olddefconfig", ok)),
                              !.cerr = IF ok THEN "none" ELSE "ErrOldDefConfig"]]
    /\ UNCHANGED <<host, cwdFiles, tmpDirs>>
    /\ UNCHANGED <<dvars, cvars, pvars>>

\* lines 235-238: make modules_prepare, only when err == nil; return err
KsrcModulesPrepare(p) ==
    /\ kp[p].at = "modules_prepare"
    /\ \E ok \in BOOLEAN :
          kp' = [kp EXCEPT ![p] =
                    [@ EXCEPT !.at = "done",
                              !.clog = Append(@, Used("modules_prepare", ok)),
                              !.cerr = IF ok THEN "nil" ELSE "ErrModulesPrepare"]]
    /\ UNCHANGED <<host, cwdFiles, tmpDirs>>
    /\ UNCHANGED <<dvars, cvars, pvars>>

InitKsrc == DiscoverIdle /\ CacheIdle /\ PureIdle /\ KsrcInit

NextKsrc ==
    \E p \in Procs :
        \/ KsrcTempDir(p)
        \/ KsrcGet(p)
        \/ KsrcExtract(p)
        \/ KsrcFindConfig(p)
        \/ KsrcCreateConfig(p)
        \/ KsrcCopyConfig(p)
        \/ KsrcPatch(p)
        \/ KsrcOldDefConfig(p)
        \/ KsrcModulesPrepare(p)

SpecKsrc == InitKsrc /\ [][NextKsrc]_vars

-----------------------------------------------------------------------------
(* C17 .. C20: the kernel source provisioner.                              *)

\* downloadKernelSrc returned without error
Provisioned(p) == kp[p].returned /\ kp[p].err = "nil"

\* the keys of an environment map
Keys(env) == { kv[1] : kv \in env }

\* the names of the steps of a log
StepNames(log) == { log[i].step : i \in DOMAIN log }

\* C17: after a successful downloadKernelSrc the configuration file it wrote
\* lies inside the directory returned as KERNELDIR, and that is the file the
\* LOCALVERSION patch and the preparation commands work on.
C17_ConfigInKernelDir ==
    \A p \in DOMAIN kp :
        Provisioned(p) =>
            \E kv \in kp[p].env :
                /\ kv[1] = "KERNELDIR"
                /\ kp[p].wrote = kv[2] \o "/.config"
                /\ \A i \in DOMAIN kp[p].clog : kp[p].clog[i].file = kv[2] \o "/.config"

\* the steps that come after the response was accepted
AfterGet == {"Mkdir", "ExtractTarGz", "getKernelConfig", "Create", "Open", "Stat", "CopyN"}

\* every step of downloadKernelSrc was run and succeeded
AllStepsOK(p) ==
    /\ \A i \in DOMAIN kp[p].dlog : kp[p].dlog[i].ok
    /\ StepNames(kp[p].dlog) =
          {"MkdirAll", "MkdirTemp", "NewRequest", "Do", "Status"} \cup AfterGet

\* no retry; a transport error or a non-200 status returns an error before
\* anything is extracted, looked up or written; KERNELDIR is in the returned
\* map exactly when every step succeeded
NoRetryNoPartialEnv(p) ==
    /\ Len(kp[p].gets) <= 1
    /\ \A i \in DOMAIN kp[p].gets : kp[p].gets[i] = kp[p].url
    /\ kp[p].err \in {"ErrTransport", "ErrNon200"} =>
          /\ kp[p].returned
          /\ StepNames(kp[p].dlog) \cap AfterGet = {}
          /\ kp[p].config = ""
          /\ kp[p].wrote = ""
    /\ (\E i \in DOMAIN kp[p].dlog :
           kp[p].dlog[i].step \in {"Do", "Status"} /\ ~kp[p].dlog[i].ok) =>
          kp[p].err \in {"ErrTransport", "ErrNon200"}
    /\ kp[p].returned =>
          /\ ("KERNELDIR" \in Keys(kp[p].env)) <=> AllStepsOK(p)
          /\ (kp[p].err = "nil") <=> AllStepsOK(p)
          /\ AllStepsOK(p) =>
                kp[p].env = {<<"KERNELDIR", kp[p].tempDir \o "/kernel-sources">>}

\* C18 (as stated): every downloadKernelSrc invocation issues exactly one GET
\* to the tarball URL and never retries; a transport error or non-200 status
\* returns an error without extraction, config lookup or config write; the
\* returned map holds KERNELDIR if and only if every step succeeded.
C18_Original ==
    \A p \in DOMAIN kp :
        /\ kp[p].returned => Len(kp[p].gets) = 1
        /\ NoRetryNoPartialEnv(p)

\* C18 (amended): downloadKernelSrc issues at most one GET, to the tarball
\* URL, and exactly one once the temporary directory and the request were
\* created; it never retries; a transport error or non-200 status returns an
\* error without extraction, config lookup or config write; the returned map
\* holds KERNELDIR if and only if every step succeeded.
C18_SingleGet ==
    \A p \in DOMAIN kp :
        /\ kp[p].returned =>
              (Len(kp[p].gets) = 1 <=>
                  \E i \in DOMAIN kp[p].dlog :
                      kp[p].dlog[i] = [step |-> "NewRequest", ok |-> TRUE])
        /\ NoRetryNoPartialEnv(p)

\* C18 witness: a non-200 answer ended an invocation after its one GET
C18_Witness ==
    \E p \in DOMAIN kp :
        /\ kp[p].returned
        /\ kp[p].err = "ErrNon200"
        /\ Len(kp[p].gets) = 1
        /\ kp[p].env = {}
        /\ kp[p].wrote = ""

\* C18 second case reached: every step succeeded and KERNELDIR is returned
C18_WitnessProvisioned ==
    \E p \in DOMAIN kp :
        /\ Provisioned(p)
        /\ Len(kp[p].gets) = 1
        /\ kp[p].env = {<<"KERNELDIR", "/tmp/kernel/a/kernel-sources">>}

\* C19: in customizeDownloadKernelSrcBuild the LOCALVERSION line is patched
\* if and only if the kernel release has a non-empty extra-version, a failed
\* patch prevents both preparation commands, make modules_prepare runs only
\* after make olddefconfig succeeded, and the error returned is that of the
\* first failing step.
C19_CustomizeOrder ==
    \A p \in DOMAIN kp :
        LET L == kp[p].clog
            ext == kp[p].kr.Extraversion
        IN  /\ L # <<>> => (L[1].step = "patch" <=> ext # "")
            /\ \A i \in DOMAIN L :
                  /\ L[i].step = "patch" => i = 1
                  /\ L[i].step = "olddefconfig" =>
                        \/ i = 1
                        \/ i = 2 /\ L[1].step = "patch" /\ L[1].ok
                  /\ L[i].step = "modules_prepare" =>
                        /\ i > 1
                        /\ L[i - 1].step = "olddefconfig"
                        /\ L[i - 1].ok
                  /\ i < Len(L) => L[i].ok
            /\ (L # <<>> /\ ~L[Len(L)].ok) =>
                  /\ kp[p].at = "done"
                  /\ kp[p].cerr = (IF L[Len(L)].step = "patch" THEN "ErrPatch"
                                   ELSE IF L[Len(L)].step = "olddefconfig"
                                   THEN "ErrOldDefConfig" ELSE "ErrModulesPrepare")
            /\ kp[p].cerr = "nil" =>
                  /\ L # <<>>
                  /\ L[Len(L)].step = "modules_prepare"
                  /\ \A i \in DOMAIN L : L[i].ok
            /\ (kp[p].at = "done" /\ L # <<>>) => kp[p].cerr # "none"

\* C19 witness: patch, make olddefconfig, make modules_prepare ran in that
\* order and succeeded
C19_Witness ==
    \E p \in DOMAIN kp :
        /\ kp[p].at = "done"
        /\ kp[p].kr.Extraversion = "13"
        /\ [i \in DOMAIN kp[p].clog |-> kp[p].clog[i].step] =
              <<"patch", "olddefconfig", "modules_prepare">>
        /\ kp[p].cerr = "nil"

\* C19 second case reached: no extra-version, no patch, make olddefconfig failed
C19_WitnessNoPatch ==
    \E p \in DOMAIN kp :
        /\ kp[p].at = "done"
        /\ kp[p].kr.Extraversion = ""
        /\ [i \in DOMAIN kp[p].clog |-> kp[p].clog[i].step] = <<"olddefconfig">>
        /\ kp[p].cerr = "ErrOldDefConfig"

\* C19 third case reached: the patch failed, nothing else ran
C19_WitnessPatchFailed ==
    \E p \in DOMAIN kp :
        /\ kp[p].at = "done"
        /\ Len(kp[p].clog) = 1
        /\ kp[p].cerr = "ErrPatch"

\* C20: invocations of one process get distinct temporary directories, and
\* every one of them writes, patches and prepares the one .config of the
\* working directory.
C20_SharedConfig ==
    /\ \A p, q \in DOMAIN kp :
          (p # q /\ kp[p].tempDir # "" /\ kp[q].tempDir # "") =>
              kp[p].tempDir # kp[q].tempDir
    /\ \A p \in DOMAIN kp :
          /\ kp[p].wrote \in {"", "/work/.config"}
          /\ \A i \in DOMAIN kp[p].clog : kp[p].clog[i].file = "/work/.config"

\* C20 witness, the interleaving: p wrote its config completely, q then
\* created and wrote the same file, and p's patch and both of p's commands
\* ran on what q left there
C20_Witness ==
    \E p, q \in DOMAIN kp :
        /\ p # q
        /\ Provisioned(p)
        /\ kp[q].wrote = kp[p].wrote
        /\ kp[p].tempDir # kp[q].tempDir
        /\ kp[q].tempDir # ""
        /\ kp[p].kr # kp[q].kr
        /\ Len(kp[p].clog) = 3
        /\ kp[p].clog[1].step = "patch"
        /\ \A i \in DOMAIN kp[p].clog : kp[p].clog[i].owner = q

====
